---------------------------- MODULE Spec2Model ----------------------------
(***************************************************************************)
(* Brine Data Visualiser (src/datavisualisationsa.py).                     *)
(*                                                                         *)
(* The program is a Streamlit script: process_sheet turns one wide sheet   *)
(* into long-form Records, the upload block concatenates the first sheets  *)
(* of the workbook into all_data, and four view sections (scatter, time    *)
(* series, ratio, pairplot) are computed top to bottom from all_data and   *)
(* the widget values.  Every widget change re-runs the whole script; an    *)
(* exception raised in one section ends the run, so the sections after it  *)
(* are not reached.                                                        *)
(*                                                                         *)
(* Texts of data cells are tuples of one-character strings, so that the    *)
(* regular-expression substitution and the numeric parse of a cell are     *)
(* computed character by character.  Floats are exact rationals            *)
(* [n |-> numerator, d |-> denominator] in lowest terms; inf is 1/0 and    *)
(* NaN is 0/0.  Rounding of IEEE doubles is not modelled.                  *)
(***************************************************************************)
EXTENDS Integers, Sequences, FiniteSets, TLC

VARIABLES
    cell_text,        \* SpecCell: the text of one data cell (df[col].astype(str))
    cell_value,       \* SpecCell: the value the cell ends with
    df_raw,           \* SpecSheet: the RawSheet and site handed to process_sheet
    df_long,          \* SpecSheet: what process_sheet returned or raised
    uploaded_file,    \* the uploaded workbook (kind "none" before an upload)
    sel,              \* the widget values of the session
    steps,            \* widget changes made since the upload
    out               \* what the last run of the script computed and rendered

vars == <<cell_text, cell_value, df_raw, df_long, uploaded_file, sel, steps, out>>

----------------------------------------------------------------------------
(* Bounds of the model.                                                    *)

MaxCellLen == 5        \* longest cell text drawn in SpecCell
MaxRows == 2           \* most data rows of a sheet drawn in SpecSheet
MaxCols == 2           \* most date columns of a sheet drawn in SpecSheet
MaxSheets == 5         \* most sheets of a workbook drawn in SpecAgg
MaxInteractions == 2   \* most widget changes after one upload in Spec

----------------------------------------------------------------------------
(* Floats.                                                                 *)

RECURSIVE Gcd(_, _)
Gcd(a, b) == IF b = 0 THEN a ELSE Gcd(b, a % b)

\* The rational n/d (n >= 0, d > 0) in lowest terms.
Rat(n, d) == LET g == Gcd(n, d) IN [n |-> n \div g, d |-> d \div g]

Zero == Rat(0, 1)
Inf == [n |-> 1, d |-> 0]
NaN == [n |-> 0, d |-> 0]

IsNaN(x) == x.d = 0 /\ x.n = 0

\* Float division as numpy does it for non-negative operands: x/0 is inf,
\* 0/0 is nan, and no exception is raised.
FloatDiv(x, y) ==
    IF y.n = 0
    THEN (IF x.n = 0 THEN NaN ELSE Inf)
    ELSE Rat(x.n * y.d, x.d * y.n)

RECURSIVE Pow10(_)
Pow10(k) == IF k = 0 THEN 1 ELSE 10 * Pow10(k - 1)

----------------------------------------------------------------------------
(* Cell texts, the "<x" substitution and the numeric parse.                *)

Digits == {"0", "1", "2", "3", "4", "5", "6", "7", "8", "9"}
Spaces == {" "}
DigitVal(c) ==
    CASE c = "0" -> 0 [] c = "1" -> 1 [] c = "2" -> 2 [] c = "3" -> 3
      [] c = "4" -> 4 [] c = "5" -> 5 [] c = "6" -> 6 [] c = "7" -> 7
      [] c = "8" -> 8 [] c = "9" -> 9

\* The number of leading characters of s, from position i on, that lie in cls.
RECURSIVE Run(_, _, _)
Run(s, i, cls) ==
    IF i <= Len(s) /\ s[i] \in cls THEN 1 + Run(s, i + 1, cls) ELSE 0

\* The length of the match of  <\s*\d+\.?\d*  that starts at position i of
\* s, or 0 when there is none.  Every quantifier is greedy and none of them
\* can give characters back to a later one, so the match is unique.
MatchLen(s, i) ==
    IF i > Len(s) \/ s[i] # "<" THEN 0
    ELSE LET ws == Run(s, i + 1, Spaces)
             d1 == Run(s, i + 1 + ws, Digits)
             p  == i + 1 + ws + d1
             dot == IF p <= Len(s) /\ s[p] = "." THEN 1 ELSE 0
             d2 == Run(s, p + dot, Digits)
         IN IF d1 = 0 THEN 0 ELSE 1 + ws + d1 + dot + d2

\* Series.replace(r"<\s*\d+\.?\d*", "0", regex=True): re.sub on the text,
\* every non-overlapping match replaced, the rest of the text kept.
RECURSIVE ReSubFrom(_, _)
ReSubFrom(s, i) ==
    IF i > Len(s) THEN <<>>
    ELSE LET m == MatchLen(s, i)
         IN IF m > 0 THEN <<"0">> \o ReSubFrom(s, i + m)
            ELSE <<s[i]>> \o ReSubFrom(s, i + 1)

ReSub(s) == ReSubFrom(s, 1)

RECURSIVE DigitsValue(_, _, _)
DigitsValue(s, i, k) ==
    IF k = 0 THEN 0 ELSE DigitsValue(s, i, k - 1) * 10 + DigitVal(s[i + k - 1])

\* pd.to_numeric(..., errors='coerce') on one text: leading and trailing
\* whitespace is skipped, then digits with an optional fraction, at least
\* one digit in all; anything else is NaN.  (Signs, exponents and the words
\* inf and nan need characters outside Alphabet.)
ToNumeric(s) ==
    LET lead == Run(s, 1, Spaces)
        ip   == Run(s, 1 + lead, Digits)
        p    == 1 + lead + ip
        dot  == IF p <= Len(s) /\ s[p] = "." THEN 1 ELSE 0
        fp   == IF dot = 1 THEN Run(s, p + 1, Digits) ELSE 0
        q    == p + dot + fp
        trail == Run(s, q, Spaces)
    IN IF ip + fp = 0 \/ q + trail # Len(s) + 1 THEN NaN
       ELSE Rat(DigitsValue(s, 1 + lead, ip) * Pow10(fp) + DigitsValue(s, p + 1, fp),
                Pow10(fp))

FillNa(x) == IF IsNaN(x) THEN Zero ELSE x

\* Lines 64-65 on one cell.
NormalizeCell(s) == FillNa(ToNumeric(ReSub(s)))

Alphabet == {"<", " ", "5", ".", "x"}

RECURSIVE TextsOfLen(_)
TextsOfLen(k) ==
    IF k = 0 THEN {<<>>}
    ELSE {Append(t, c) : t \in TextsOfLen(k - 1), c \in Alphabet}

CellTexts == UNION {TextsOfLen(k) : k \in 0..MaxCellLen}


----------------------------------------------------------------------------
(* Header labels and dates.                                                *)

\* The labels a header cell is drawn from, and what pd.to_datetime(...,
\* errors="coerce") makes of each: a date <<year, month, day>> or NaT.
NaT == <<0, 0, 0>>

HeaderLabels == {"2021-01-01", "2021-02-01", "n/a"}

ToDatetime(label) ==
    CASE label = "2021-01-01" -> <<2021, 1, 1>>
      [] label = "2021-02-01" -> <<2021, 2, 1>>
      [] OTHER -> NaT

\* .dt.strftime("%m-%y"): the month and the year's last two digits.
Strftime(date) == <<date[2], date[1] % 100>>

----------------------------------------------------------------------------
(* Parameter keys and Python's string order.                               *)

ParamKeys == {"Ca", "Mg", "ca"}

\* The code points of a key's characters: list.sort() compares strings
\* code point by code point.
CodePoints(key) ==
    CASE key = "Ca" -> <<67, 97>>
      [] key = "Mg" -> <<77, 103>>
      [] key = "ca" -> <<99, 97>>

RECURSIVE SeqLess(_, _)
SeqLess(a, b) ==
    IF b = <<>> THEN FALSE
    ELSE IF a = <<>> THEN TRUE
    ELSE IF a[1] # b[1] THEN a[1] < b[1]
    ELSE SeqLess(Tail(a), Tail(b))

StrLess(a, b) == SeqLess(CodePoints(a), CodePoints(b))

\* The elements of the set S in the order Python's set iteration happens to
\* give them, had the list not been sorted: descending here.
RECURSIVE ListOfSet(_)
ListOfSet(S) ==
    IF S = {} THEN <<>>
    ELSE LET m == CHOOSE x \in S : \A y \in S \ {x} : StrLess(y, x)
         IN <<m>> \o ListOfSet(S \ {m})

\* list(S) followed by .sort(): ascending.
RECURSIVE SortedList(_)
SortedList(S) ==
    IF S = {} THEN <<>>
    ELSE LET m == CHOOSE x \in S : \A y \in S \ {x} : StrLess(x, y)
         IN <<m>> \o SortedList(S \ {m})

----------------------------------------------------------------------------
(* Sequences.                                                              *)

Range(s) == {s[i] : i \in 1..Len(s)}

Take(s, k) == SubSeq(s, 1, IF k < Len(s) THEN k ELSE Len(s))

RECURSIVE Concat(_)
Concat(ss) == IF ss = <<>> THEN <<>> ELSE ss[1] \o Concat(Tail(ss))

\* Series.unique().tolist(): the distinct values in order of first appearance.
RECURSIVE UniqueFrom(_, _)
UniqueFrom(s, seen) ==
    IF s = <<>> THEN <<>>
    ELSE IF s[1] \in seen THEN UniqueFrom(Tail(s), seen)
    ELSE <<s[1]>> \o UniqueFrom(Tail(s), seen \cup {s[1]})

Unique(s) == UniqueFrom(s, {})

\* The sequences over S of length at most k.
RECURSIVE SeqsUpTo(_, _)
SeqsUpTo(S, k) ==
    IF k = 0 THEN {<<>>}
    ELSE LET shorter == SeqsUpTo(S, k - 1)
         IN shorter \cup {Append(t, x) : t \in {u \in shorter : Len(u) = k - 1}, x \in S}

\* The sequences over S without repetition: what a multiselect returns.
Selections(S) == {t \in SeqsUpTo(S, Cardinality(S)) : Cardinality(Range(t)) = Len(t)}

----------------------------------------------------------------------------
(* process_sheet.                                                          *)

\* A RawSheet after line 60: the labels of the columns after the first, and
\* the data rows, each a parameter cell and one text per date column.
RawSheets(headers, params, cells, maxRows) ==
    UNION {
        {[header |-> h, rows |-> rs] :
            rs \in SeqsUpTo({[param |-> p, cells |-> cs] :
                                p \in params, cs \in [1..Len(h) -> cells]}, maxRows)}
        : h \in headers}

\* df[col] is a DataFrame, not a Series, when the label col names more than
\* one column, and pd.to_numeric raises TypeError on it (line 65).
DuplicateLabels(h) == \E i, j \in 1..Len(h) : i # j /\ h[i] = h[j]

\* melt (line 68) lists the cells column by column, rows in order within a
\* column; lines 69-72 add the date, its label and the site.
MeltColumn(raw, j, site) ==
    [i \in 1..Len(raw.rows) |->
        [PARAMETER |-> raw.rows[i].param,
         SamplingDate |-> ToDatetime(raw.header[j]),
         Value |-> NormalizeCell(raw.rows[i].cells[j]),
         DateLabel |-> Strftime(ToDatetime(raw.header[j])),
         Site |-> site]]

\* dropna(subset=["Sampling Date"]), line 70.
DropNaT(recs) == SelectSeq(recs, LAMBDA r : r.SamplingDate # NaT)

\* What process_sheet returns: the Records in df_long's row order, or the
\* exception it raised.
process_sheet(raw, site) ==
    IF DuplicateLabels(raw.header)
    THEN [raised |-> "TypeError", recs |-> <<>>]
    ELSE [raised |-> "",
          recs |-> DropNaT(Concat([j \in 1..Len(raw.header) |->
                                        MeltColumn(raw, j, site)]))]

----------------------------------------------------------------------------
(* The upload block, lines 79-94.                                          *)

SheetsRead == 4        \* xls.sheet_names[:4]

\* All the sheets of the workbook, had the [:4] been left out.
ReadAllSheets(file) ==
    IF file.kind = "csv"
    THEN <<[name |-> "Sheet1", raw |-> file.sheets[1].raw]>>
    ELSE file.sheets

\* A file is [kind, sheets]: its sheets in workbook order, each a name and a
\* RawSheet.  A csv file is one table with no sheet name of its own.
ReadSheets(file) ==
    IF file.kind = "csv"
    THEN <<[name |-> "Sheet1", raw |-> file.sheets[1].raw]>>
    ELSE Take(file.sheets, SheetsRead)

\* processed_data: the dict of lines 89-91, in insertion order.
Processed(file) ==
    LET sheets == ReadSheets(file)
    IN [i \in 1..Len(sheets) |->
            [name |-> sheets[i].name,
             df |-> process_sheet(sheets[i].raw, sheets[i].name)]]

\* pd.concat(processed_data.values(), ignore_index=True), line 93.
AllData(processed) == Concat([i \in 1..Len(processed) |-> processed[i].df.recs])

Column(recs, field) == [i \in 1..Len(recs) |-> recs[i][field]]

Parameters(all_data) == Unique(Column(all_data, "PARAMETER"))
Sites(all_data) == Range(Column(all_data, "Site"))

----------------------------------------------------------------------------
(* pivot_table(...).dropna()                                               *)

RECURSIVE SumValues(_)
SumValues(recs) ==
    IF recs = <<>> THEN Zero
    ELSE LET x == recs[1].Value
             rest == SumValues(Tail(recs))
         IN Rat(x.n * rest.d + rest.n * x.d, x.d * rest.d)

\* The index of a Record in a pivot: its values in the index columns.
KeyOf(r, index) == [i \in 1..Len(index) |-> r[index[i]]]

\* aggfunc defaults to the mean of the Records that share a cell.
Mean(recs) == LET t == SumValues(recs) IN Rat(t.n, t.d * Len(recs))

\* One column per PARAMETER found in recs, one row per key found in recs; a
\* cell with no Record is NaN, and dropna() removes every row that has one.
Pivot(recs, index) ==
    LET columns == Range(Column(recs, "PARAMETER"))
        keys == {KeyOf(recs[i], index) : i \in 1..Len(recs)}
        cellRecs(k, c) == SelectSeq(recs, LAMBDA r : KeyOf(r, index) = k /\ r.PARAMETER = c)
        cell(k, c) == IF cellRecs(k, c) = <<>> THEN NaN ELSE Mean(cellRecs(k, c))
    IN [columns |-> columns,
        rows |-> {[key |-> k, vals |-> [c \in columns |-> cell(k, c)]] :
                    k \in {kk \in keys : \A c \in columns : ~IsNaN(cell(kk, c))}}]

\* index=["Sampling Date", "Site"] and
\* index=["Sampling Date", "Date (MM-YY)", "Site"].
DateSite == <<"SamplingDate", "Site">>
DateLabelSite == <<"SamplingDate", "DateLabel", "Site">>

Filter(all_data, params, sites) ==
    SelectSeq(all_data, LAMBDA r : r.PARAMETER \in params /\ r.Site \in sites)

----------------------------------------------------------------------------
(* The four view sections.  Each gives what the section computed and how   *)
(* it ended: "rendered", the exception it raised, or, for a section the    *)
(* script did not enter, "skipped" / "warning".                            *)

NoPivot == [columns |-> {}, rows |-> {}]

\* Lines 105-133.  px.scatter raises ValueError when x or y does not name a
\* column of pivot_df.
ScatterSection(all_data, s) ==
    LET scatter_df == Filter(all_data, {s.param_x, s.param_y}, s.scatter_sites)
        pivot_df == Pivot(scatter_df, DateSite)
    IN [status |-> IF {s.param_x, s.param_y} \subseteq pivot_df.columns
                   THEN "rendered" ELSE "ValueError",
        pivot |-> pivot_df]

\* Lines 137-162.  The columns px.scatter names exist in every ts_df.
TimeSeriesSection(all_data, s) ==
    [status |-> "rendered",
     ts_df |-> Filter(all_data, s.ts_params, s.ts_sites)]

\* Line 174 with the operands taken in the columns' (sorted) order instead
\* of the order of selection.
RatioSorted(vals, ratio_params) ==
    LET lo == SortedList(Range(ratio_params))
    IN FloatDiv(vals[lo[1]], vals[lo[2]])

\* Line 174: ratio_params[0] over ratio_params[1].
RatioOf(vals, ratio_params) == FloatDiv(vals[ratio_params[1]], vals[ratio_params[2]])

RatioParamsNeeded == 2     \* len(ratio_params) == 2

\* Lines 171-197.  Nothing is computed or shown unless two parameters are
\* selected; pivot_ratio[...] raises KeyError for a column that is missing.
RatioSection(all_data, s) ==
    IF Len(s.ratio_params) # RatioParamsNeeded
    THEN [status |-> "skipped", rows |-> {}]
    ELSE LET ratio_df == Filter(all_data, Range(s.ratio_params), s.ratio_sites)
             pivot_ratio == Pivot(ratio_df, DateLabelSite)
         IN IF ~(Range(s.ratio_params) \subseteq pivot_ratio.columns)
            THEN [status |-> "KeyError", rows |-> {}]
            ELSE [status |-> "rendered",
                  rows |-> {[key |-> r.key, vals |-> r.vals,
                             Ratio |-> RatioOf(r.vals, s.ratio_params)] :
                                r \in pivot_ratio.rows}]

FrameOf(processed, name) ==
    LET i == CHOOSE k \in 1..Len(processed) : processed[k].name = name
    IN processed[i].df.recs

\* Line 209 without the sort of line 210.
CommonParamsUnsorted(processed, sheet_pair) ==
    ListOfSet(Range(Column(FrameOf(processed, sheet_pair[1]), "PARAMETER"))
                \cap Range(Column(FrameOf(processed, sheet_pair[2]), "PARAMETER")))

\* Lines 209-210.
CommonParams(processed, sheet_pair) ==
    SortedList(Range(Column(FrameOf(processed, sheet_pair[1]), "PARAMETER"))
                \cap Range(Column(FrameOf(processed, sheet_pair[2]), "PARAMETER")))

SheetsNeeded == 2          \* len(sheet_pair) == 2
DefaultPairParams == 3     \* default=common_params[:3]
DefaultCount == 2          \* parameters[:2], sheet_names[:2]

\* Lines 203-240.  The else of line 239 belongs to the if of line 203, and
\* line 225 reads pivot_pair whether or not line 216 assigned it.
PairSection(processed, s) ==
    IF Len(s.sheet_pair) # SheetsNeeded
    THEN [status |-> "warning", common_params |-> <<>>, pivot |-> NoPivot]
    ELSE LET merged_pair == FrameOf(processed, s.sheet_pair[1])
                                \o FrameOf(processed, s.sheet_pair[2])
             common == CommonParams(processed, s.sheet_pair)
             filtered_pair == SelectSeq(merged_pair,
                                        LAMBDA r : r.PARAMETER \in s.pair_params)
             pivot_pair == Pivot(filtered_pair, DateSite)
         IN IF s.pair_params = {}
            THEN [status |-> "NameError", common_params |-> common, pivot |-> NoPivot]
            ELSE [status |-> IF s.pair_params \subseteq pivot_pair.columns
                             THEN "rendered" ELSE "KeyError",
                  common_params |-> common, pivot |-> pivot_pair]

----------------------------------------------------------------------------
(* One run of the script.                                                  *)

Unreached == "unreached"

NoScatter == [status |-> Unreached, pivot |-> NoPivot]
NoTs == [status |-> Unreached, ts_df |-> <<>>]
NoRatio == [status |-> Unreached, rows |-> {}]
NoPair == [status |-> Unreached, common_params |-> <<>>, pivot |-> NoPivot]

NoSel ==
    [param_x |-> "", param_y |-> "", scatter_sites |-> {},
     ts_params |-> {}, ts_sites |-> {},
     ratio_params |-> <<>>, ratio_sites |-> {},
     sheet_pair |-> <<>>, pair_params |-> {}]

NoFile == [kind |-> "none", sheets |-> <<>>]

NoRun ==
    [upload |-> "none", sheet_names |-> <<>>, processed_data |-> <<>>,
     all_data |-> <<>>, parameters |-> <<>>,
     scatter |-> NoScatter, ts |-> NoTs, ratio |-> NoRatio, pair |-> NoPair]

Raised(processed) == \E i \in 1..Len(processed) : processed[i].df.raised # ""

\* The script from line 79 to its end under the widget values s.  A section
\* is reached only if every section before it ended without an exception.
RunScript(file, s) ==
    LET processed == Processed(file)
        all_data == AllData(processed)
        scatter == ScatterSection(all_data, s)
        ts == TimeSeriesSection(all_data, s)
        ratio == RatioSection(all_data, s)
        pair == PairSection(processed, s)
        okScatter == scatter.status = "rendered"
        okRatio == okScatter /\ ratio.status \in {"rendered", "skipped"}
    IN IF Raised(processed)
       THEN [NoRun EXCEPT !.upload = "TypeError",
                          !.sheet_names = Column(ReadSheets(file), "name")]
       ELSE [upload |-> "ok",
             sheet_names |-> Column(ReadSheets(file), "name"),
             processed_data |-> processed,
             all_data |-> all_data,
             parameters |-> Parameters(all_data),
             scatter |-> scatter,
             ts |-> IF okScatter THEN ts ELSE NoTs,
             ratio |-> IF okScatter THEN ratio ELSE NoRatio,
             pair |-> IF okRatio THEN pair ELSE NoPair]

\* The pairplot's parameter widget as a fresh widget: common_params[:3].
PairDefault(processed, sheet_pair) ==
    IF Len(sheet_pair) # SheetsNeeded THEN {}
    ELSE Range(Take(CommonParams(processed, sheet_pair), DefaultPairParams))

\* The widget values of the first run after an upload (lines 100-105, 137,
\* 140, 166, 169, 201, 211).
DefaultSel(file) ==
    LET processed == Processed(file)
        all_data == AllData(processed)
        parameters == Parameters(all_data)
        names == Column(ReadSheets(file), "name")
        first == IF parameters = <<>> THEN "" ELSE parameters[1]
    IN IF Raised(processed) THEN NoSel
       ELSE [param_x |-> first, param_y |-> first,
             scatter_sites |-> Sites(all_data),
             ts_params |-> Range(Take(parameters, DefaultCount)),
             ts_sites |-> Sites(all_data),
             ratio_params |-> Take(parameters, DefaultCount),
             ratio_sites |-> Sites(all_data),
             sheet_pair |-> Take(names, DefaultCount),
             pair_params |-> PairDefault(processed, Take(names, DefaultCount))]

----------------------------------------------------------------------------
(* The inputs the specifications draw from.                                *)

Txt2 == <<"2">>
Txt5 == <<"5">>
TxtLor == <<"<", "5">>
Txt55 == <<"5", ".", "5">>
TxtX == <<"x">>

\* SpecSheet: every sheet of at most MaxCols date columns and MaxRows rows.
SheetInputs(maxCols, maxRows) ==
    RawSheets(SeqsUpTo(HeaderLabels, maxCols), ParamKeys, {TxtLor, Txt55, TxtX}, maxRows)

SheetNames == <<"A", "B", "C", "D", "E", "F">>

Workbook(raws) ==
    [kind |-> "xlsx",
     sheets |-> [i \in 1..Len(raws) |-> [name |-> SheetNames[i], raw |-> raws[i]]]]

CsvFile(raw) == [kind |-> "csv", sheets |-> <<[name |-> "", raw |-> raw]>>]

\* SpecAgg: workbooks of 1..MaxSheets sheets, and csv tables.  A sheet has
\* one row under a date, under a label that is no date or under the same
\* date twice, or it has a date column and no row.
AggSheets ==
    {[header |-> h, rows |-> <<[param |-> "Ca", cells |-> [j \in 1..Len(h) |-> Txt5]]>>] :
        h \in {<<"2021-01-01">>, <<"n/a">>, <<"2021-01-01", "2021-01-01">>}}
      \cup {[header |-> <<"2021-01-01">>, rows |-> <<>>]}

AggFiles ==
    {Workbook(raws) : raws \in SeqsUpTo(AggSheets, MaxSheets) \ {<<>>}}
        \cup {CsvFile(raw) : raw \in AggSheets}

\* Spec: workbooks of one or two sheets of at most two rows, over two date
\* columns.  The rows give a parameter a zero on one date or on both and
\* give the two parameters different values; a sheet holds one parameter or
\* both (in either order) or the same parameter twice, or no row at all; one
\* sheet spells a parameter in lower case; a header holds two dates, a date
\* and a label that is none, or a date twice.
RowCa == [param |-> "Ca", cells |-> <<Txt2, Txt5>>]
RowMg == [param |-> "Mg", cells |-> <<Txt5, TxtLor>>]
RowCa0 == [param |-> "Ca", cells |-> <<TxtLor, TxtLor>>]
RowLower == [param |-> "ca", cells |-> <<Txt5, Txt2>>]

ViewSheets ==
    {[header |-> <<"2021-01-01", "2021-02-01">>, rows |-> rs] :
        rs \in {<<>>, <<RowCa>>, <<RowMg>>, <<RowCa0>>,
                <<RowMg, RowCa>>, <<RowCa, RowCa0>>, <<RowCa0, RowMg>>,
                <<RowLower, RowMg>>}}
      \cup {[header |-> <<"2021-01-01", "n/a">>, rows |-> <<RowCa, RowMg>>],
            [header |-> <<"2021-01-01", "2021-01-01">>, rows |-> <<RowCa>>]}

\* The first sheet of a file of Spec gives at least one Record or raises, so
\* that all_data is not empty and the select boxes have an option.
FirstSheets == {sh \in ViewSheets : process_sheet(sh, "A").recs # <<>>
                                        \/ process_sheet(sh, "A").raised # ""}

\* The second sheet of a workbook of Spec: no row, one parameter, both, the
\* lower-case spelling, or the header that holds a date twice.
SecondSheets ==
    {[header |-> <<"2021-01-01", "2021-02-01">>, rows |-> rs] :
        rs \in {<<>>, <<RowCa>>, <<RowMg, RowCa>>, <<RowLower, RowMg>>}}
      \cup {[header |-> <<"2021-01-01", "2021-01-01">>, rows |-> <<RowCa>>]}

ViewFiles ==
    {Workbook(<<a>>) : a \in FirstSheets}
        \cup {Workbook(<<a, b>>) : a \in FirstSheets, b \in SecondSheets}
        \cup {CsvFile(a) : a \in FirstSheets}

----------------------------------------------------------------------------
(* SpecCell: lines 64-65 applied to one cell.                              *)

InitCell ==
    /\ cell_text \in CellTexts
    /\ cell_value = [done |-> FALSE, value |-> Zero]
    /\ df_raw = [raw |-> [header |-> <<>>, rows |-> <<>>], site |-> ""]
    /\ df_long = [done |-> FALSE, raised |-> "", recs |-> <<>>]
    /\ uploaded_file = NoFile
    /\ sel = NoSel
    /\ steps = 0
    /\ out = NoRun

ConvertCell ==
    /\ ~cell_value.done
    /\ cell_value' = [done |-> TRUE, value |-> NormalizeCell(cell_text)]
    /\ UNCHANGED <<cell_text, df_raw, df_long, uploaded_file, sel, steps, out>>

NextCell == ConvertCell

SpecCell == InitCell /\ [][NextCell]_vars

----------------------------------------------------------------------------
(* SpecSheet: process_sheet applied to one RawSheet.                       *)

InitSheet ==
    /\ cell_text = <<>>
    /\ cell_value = [done |-> FALSE, value |-> Zero]
    /\ df_raw \in {[raw |-> r, site |-> n] : r \in SheetInputs(MaxCols, MaxRows), n \in {"A", "Sheet1"}}
    /\ df_long = [done |-> FALSE, raised |-> "", recs |-> <<>>]
    /\ uploaded_file = NoFile
    /\ sel = NoSel
    /\ steps = 0
    /\ out = NoRun

ProcessSheet ==
    /\ ~df_long.done
    /\ df_long' = LET r == process_sheet(df_raw.raw, df_raw.site)
                  IN [done |-> TRUE, raised |-> r.raised, recs |-> r.recs]
    /\ UNCHANGED <<cell_text, cell_value, df_raw, uploaded_file, sel, steps, out>>

NextSheet == ProcessSheet

SpecSheet == InitSheet /\ [][NextSheet]_vars

----------------------------------------------------------------------------
(* The session: an upload, then widget changes, each followed by a run of  *)
(* the whole script.                                                       *)

Init ==
    /\ cell_text = <<>>
    /\ cell_value = [done |-> FALSE, value |-> Zero]
    /\ df_raw = [raw |-> [header |-> <<>>, rows |-> <<>>], site |-> ""]
    /\ df_long = [done |-> FALSE, raised |-> "", recs |-> <<>>]
    /\ uploaded_file = NoFile
    /\ sel = NoSel
    /\ steps = 0
    /\ out = NoRun

UploadFile(file) ==
    /\ uploaded_file = NoFile
    /\ uploaded_file' = file
    /\ sel' = DefaultSel(file)
    /\ steps' = 0
    /\ out' = RunScript(file, sel')
    /\ UNCHANGED <<cell_text, cell_value, df_raw, df_long>>

\* A widget can be changed when the last run reached the line that draws it.
Change(s) ==
    /\ steps < MaxInteractions
    /\ s # sel
    /\ sel' = s
    /\ steps' = steps + 1
    /\ out' = RunScript(uploaded_file, s)
    /\ UNCHANGED <<cell_text, cell_value, df_raw, df_long, uploaded_file>>

SiteSets == SUBSET Sites(out.all_data)
ParamSets == SUBSET Range(out.parameters)

Upload == \E file \in ViewFiles : UploadFile(file)

SelectScatterX ==
    /\ out.upload = "ok"
    /\ \E p \in Range(out.parameters) : Change([sel EXCEPT !.param_x = p])

SelectScatterY ==
    /\ out.upload = "ok"
    /\ \E p \in Range(out.parameters) : Change([sel EXCEPT !.param_y = p])

SelectScatterSites ==
    /\ out.upload = "ok"
    /\ \E S \in SiteSets : Change([sel EXCEPT !.scatter_sites = S])

SelectTsParams ==
    /\ out.ts.status # Unreached
    /\ \E P \in ParamSets : Change([sel EXCEPT !.ts_params = P])

SelectTsSites ==
    /\ out.ts.status # Unreached
    /\ \E S \in SiteSets : Change([sel EXCEPT !.ts_sites = S])

SelectRatioParams ==
    /\ out.ratio.status # Unreached
    /\ \E ps \in Selections(Range(out.parameters)) : Change([sel EXCEPT !.ratio_params = ps])

SelectRatioSites ==
    /\ out.ratio.status # Unreached
    /\ \E S \in SiteSets : Change([sel EXCEPT !.ratio_sites = S])

\* The parameter widget of the pairplot keeps its value while it is drawn
\* with the same options, and starts from its default otherwise.
SelectSheetPair ==
    /\ out.pair.status # Unreached
    /\ \E sp \in Selections(Range(out.sheet_names)) :
        LET kept == /\ Len(sp) = SheetsNeeded
                    /\ Len(sel.sheet_pair) = SheetsNeeded
                    /\ CommonParams(out.processed_data, sp) = out.pair.common_params
        IN Change([sel EXCEPT !.sheet_pair = sp,
                              !.pair_params = IF kept THEN sel.pair_params
                                              ELSE PairDefault(out.processed_data, sp)])

SelectPairParams ==
    /\ out.pair.status \notin {Unreached, "warning"}
    /\ \E P \in SUBSET Range(out.pair.common_params) : Change([sel EXCEPT !.pair_params = P])

Next ==
    \/ Upload
    \/ SelectScatterX
    \/ SelectScatterY
    \/ SelectScatterSites
    \/ SelectTsParams
    \/ SelectTsSites
    \/ SelectRatioParams
    \/ SelectRatioSites
    \/ SelectSheetPair
    \/ SelectPairParams

Spec == Init /\ [][Next]_vars

----------------------------------------------------------------------------
(* SpecAgg: the upload block over workbooks of up to MaxSheets sheets.     *)

UploadWorkbook == \E file \in AggFiles : UploadFile(file)

NextAgg == UploadWorkbook

SpecAgg == Init /\ [][NextAgg]_vars

----------------------------------------------------------------------------
(* Claims.                                                                 *)

\* A text that is, as a whole, a less-than sign, optional whitespace and a
\* non-negative decimal number.
IsBelowLimit(s) == Len(s) > 0 /\ MatchLen(s, 1) = Len(s)

ParsesAsNumber(s) == ~IsNaN(ToNumeric(s))

\* C1: every data cell is mapped to a value as follows: a below-limit text
\* ("<5", "< 5.2") becomes 0.0, a text that parses as a number becomes that
\* number, and every other text becomes 0.0.
C1_CellMapping ==
    cell_value.done =>
        cell_value.value = IF IsBelowLimit(cell_text) THEN Zero
                           ELSE IF ParsesAsNumber(cell_text) THEN ToNumeric(cell_text)
                           ELSE Zero

\* The (row, column) pairs of the sheet whose column label parses as a date.
DatedCells(raw) ==
    {<<i, j>> \in (1..Len(raw.rows)) \X (1..Len(raw.header)) :
        ToDatetime(raw.header[j]) # NaT}

RecordsOfCell(recs, raw, i, j) ==
    {k \in 1..Len(recs) : /\ recs[k].PARAMETER = raw.rows[i].param
                          /\ recs[k].SamplingDate = ToDatetime(raw.header[j])}

RowsWithParam(raw, p) == {i \in 1..Len(raw.rows) : raw.rows[i].param = p}

\* The output holds one Record per (row, dated column) pair, whatever the
\* cells hold, and every Record has a value and a date.
OneRecordPerDatedCell(raw, recs) ==
    /\ Len(recs) = Cardinality(DatedCells(raw))
    /\ \A c \in DatedCells(raw) :
        Cardinality(RecordsOfCell(recs, raw, c[1], c[2]))
            = Cardinality(RowsWithParam(raw, raw.rows[c[1]].param))
    /\ \A k \in 1..Len(recs) : ~IsNaN(recs[k].Value) /\ recs[k].SamplingDate # NaT

\* C2: for every RawSheet process_sheet outputs exactly one Record for each
\* pair (data row, date column whose label parses as a date) and none for a
\* column whose label does not parse; no Record is dropped for its cell
\* value, and every Record has a defined value and a valid sampling date.
C2_OneRecordPerDatedCell ==
    df_long.done =>
        /\ df_long.raised = ""
        /\ OneRecordPerDatedCell(df_raw.raw, df_long.recs)

\* The (sampling date, site) keys under which every parameter of params has
\* a Record among recs.
CompleteKeys(recs, params) ==
    {k \in {<<recs[i].SamplingDate, recs[i].Site>> : i \in 1..Len(recs)} :
        \A q \in params : \E i \in 1..Len(recs) :
            <<recs[i].SamplingDate, recs[i].Site>> = k /\ recs[i].PARAMETER = q}

RowKeys(rows) == {r.key : r \in rows}

InnerJoin(pivot, recs, params) ==
    /\ RowKeys(pivot.rows) = CompleteKeys(recs, params)
    /\ Cardinality(pivot.rows) = Cardinality(RowKeys(pivot.rows))

PairBuilt == out.pair.status \notin {Unreached, "warning", "NameError"}

PairRecords ==
    SelectSeq(out.all_data, LAMBDA r : r.Site \in Range(sel.sheet_pair))

\* C3: every PivotView is an inner join: the scatter view for distinct
\* parameters and the pairwise view hold exactly one row per (sampling
\* date, site) key for which every selected parameter has a Record in the
\* filtered data, and no row for a key that lacks a selected parameter.
C3_InnerJoin ==
    /\ (out.scatter.status # Unreached /\ sel.param_x # sel.param_y) =>
            InnerJoin(out.scatter.pivot,
                      Filter(out.all_data, {sel.param_x, sel.param_y}, sel.scatter_sites),
                      {sel.param_x, sel.param_y})
    /\ PairBuilt =>
            InnerJoin(out.pair.pivot,
                      SelectSeq(PairRecords, LAMBDA r : r.PARAMETER \in sel.pair_params),
                      sel.pair_params)

RatioKey(r) == <<r.SamplingDate, r.DateLabel, r.Site>>

\* The mean of the values of the Records of recs under key k for parameter q.
ValueAt(recs, k, q) ==
    Mean(SelectSeq(recs, LAMBDA r : RatioKey(r) = k /\ r.PARAMETER = q))

RatioRecords == Filter(out.all_data, Range(sel.ratio_params), sel.ratio_sites)

Reciprocal(x, y) == x.n = y.d /\ x.d = y.n

\* C4: every row of the ratio view holds value[P1] / value[P2] in the order
\* of selection; the selection (P2, P1) gives the same rows with reciprocal
\* ratios wherever neither value is zero; a row whose denominator is zero
\* is kept, its ratio inf or NaN.
C4_RatioInSelectionOrder ==
    out.ratio.status = "rendered" =>
        LET p1 == sel.ratio_params[1]
            p2 == sel.ratio_params[2]
            swapped == RatioSection(out.all_data, [sel EXCEPT !.ratio_params = <<p2, p1>>])
            complete == {k \in {RatioKey(RatioRecords[i]) : i \in 1..Len(RatioRecords)} :
                            \A q \in {p1, p2} : \E i \in 1..Len(RatioRecords) :
                                /\ RatioKey(RatioRecords[i]) = k
                                /\ RatioRecords[i].PARAMETER = q}
        IN /\ RowKeys(out.ratio.rows) = complete
           /\ \A r \in out.ratio.rows :
                /\ r.Ratio = FloatDiv(ValueAt(RatioRecords, r.key, p1),
                                      ValueAt(RatioRecords, r.key, p2))
                /\ ValueAt(RatioRecords, r.key, p2) = Zero => r.Ratio \in {Inf, NaN}
           /\ swapped.status = "rendered"
           /\ RowKeys(swapped.rows) = RowKeys(out.ratio.rows)
           /\ \A r \in out.ratio.rows : \A t \in swapped.rows :
                (r.key = t.key /\ r.vals[p1] # Zero /\ r.vals[p2] # Zero)
                    => Reciprocal(r.Ratio, t.Ratio)

\* The ratio view shows Ca / Mg although Ca sorts first and was selected
\* after the upload put Mg first; one row has a finite ratio that is not
\* its own reciprocal and one has a zero denominator.
C4_Witness ==
    /\ out.ratio.status = "rendered"
    /\ out.parameters = <<"Mg", "Ca">>
    /\ sel.ratio_params = <<"Ca", "Mg">>
    /\ \E r \in out.ratio.rows : r.Ratio = Rat(2, 5)
    /\ \E r \in out.ratio.rows : r.Ratio = Inf

\* C5: in the pairwise view, when two sheets are selected and no parameter
\* is, the caller gets the warning; nothing is rendered and nothing raised.
C5_EmptySelectionWarning ==
    (/\ out.pair.status # Unreached
     /\ Len(sel.sheet_pair) = SheetsNeeded
     /\ sel.pair_params = {}) => out.pair.status = "warning"

\* C6: for every UnifiedTable and every selection the widgets allow, the
\* scatter, time-series, ratio and pairwise sections all end without an
\* exception.
C6_NoSelectionFatal ==
    out.upload = "ok" =>
        /\ out.scatter.status = "rendered"
        /\ out.ts.status = "rendered"
        /\ out.ratio.status \in {"rendered", "skipped"}
        /\ out.pair.status \in {"rendered", "warning"}

\* C7: when the scatter selection is not two distinct parameters, or the
\* ratio selection has fewer than two, that view is not rendered and a
\* message is shown in its place.
C7_UnderSelectionMessage ==
    /\ (out.scatter.status # Unreached /\ sel.param_x = sel.param_y)
            => out.scatter.status = "warning"
    /\ (out.ratio.status # Unreached /\ Len(sel.ratio_params) < RatioParamsNeeded)
            => out.ratio.status = "warning"

ParamsOfSite(site) ==
    {out.all_data[i].PARAMETER : i \in {k \in 1..Len(out.all_data) :
                                            out.all_data[k].Site = site}}

\* C8: the parameters offered in the pairwise view are those that appear,
\* by exact string equality, in the Records of both selected sheets, each
\* once, in ascending lexicographic order.
C8_CommonParamsSorted ==
    (out.pair.status \notin {Unreached, "warning"}) =>
        LET cp == out.pair.common_params
        IN /\ Range(cp) = ParamsOfSite(sel.sheet_pair[1]) \cap ParamsOfSite(sel.sheet_pair[2])
           /\ \A i, j \in 1..Len(cp) : i < j => StrLess(cp[i], cp[j])

\* Two sheets that both list "ca" before "Mg" are compared: the list offered
\* is Mg, ca; and "Ca" of another file's sheet is not "ca".
C8_Witness ==
    /\ out.pair.status \notin {Unreached, "warning"}
    /\ out.parameters = <<"ca", "Mg">>
    /\ out.pair.common_params = <<"Mg", "ca">>

SameScatterSel(s, t) ==
    /\ s.param_x = t.param_x /\ s.param_y = t.param_y
    /\ s.scatter_sites = t.scatter_sites
SameTsSel(s, t) == s.ts_params = t.ts_params /\ s.ts_sites = t.ts_sites
SameRatioSel(s, t) == s.ratio_params = t.ratio_params /\ s.ratio_sites = t.ratio_sites
SamePairSel(s, t) == s.sheet_pair = t.sheet_pair /\ s.pair_params = t.pair_params

\* C9: a view build or a selection change leaves the UnifiedTable and the
\* per-sheet Records as they are, and changes the output of no view whose
\* own selection it leaves as it is.
C9_ViewsIndependent ==
    [][uploaded_file.kind # "none" =>
        /\ out'.all_data = out.all_data
        /\ out'.processed_data = out.processed_data
        /\ SameScatterSel(sel, sel') => out'.scatter = out.scatter
        /\ SameTsSel(sel, sel') => out'.ts = out.ts
        /\ SameRatioSel(sel, sel') => out'.ratio = out.ratio
        /\ SamePairSel(sel, sel') => out'.pair = out.pair]_vars

NamesRead ==
    IF uploaded_file.kind = "csv" THEN <<"Sheet1">>
    ELSE [i \in 1..(IF Len(uploaded_file.sheets) < 4 THEN Len(uploaded_file.sheets) ELSE 4)
            |-> uploaded_file.sheets[i].name]

IndexOf(names, n) == CHOOSE i \in 1..Len(names) : names[i] = n

\* C10: only the first 4 sheets of a workbook (one sheet of a flat table)
\* are normalized; all_data holds their Records sheet by sheet in workbook
\* order, each sheet's Records in process_sheet's order, none added or lost,
\* and every Record's site is the name of its sheet.
C10_FirstFourSheetsInOrder ==
    out.upload = "ok" =>
        /\ out.sheet_names = NamesRead
        /\ \A k \in 1..Len(out.all_data) : out.all_data[k].Site \in Range(NamesRead)
        /\ \A i \in 1..Len(NamesRead) :
            SelectSeq(out.all_data, LAMBDA r : r.Site = NamesRead[i])
                = process_sheet(uploaded_file.sheets[i].raw, NamesRead[i]).recs
        /\ \A k, m \in 1..Len(out.all_data) :
            k < m => IndexOf(NamesRead, out.all_data[k].Site)
                        <= IndexOf(NamesRead, out.all_data[m].Site)

\* A workbook of five sheets, the fifth with a Record of its own, was
\* uploaded and all_data holds Records of four sites.
C10_Witness ==
    /\ out.upload = "ok"
    /\ Len(uploaded_file.sheets) = 5
    /\ process_sheet(uploaded_file.sheets[5].raw, "E").recs # <<>>
    /\ Cardinality(Sites(out.all_data)) = 4

============================================================================
